---- MODULE Spec2Model ----
(***************************************************************************)
(* Model of src/api.py: a Flask application with four routes (/, /healthz, *)
(* /enrich, /metrics), a labelled Prometheus counter REQUEST_COUNT and a   *)
(* labelled Prometheus histogram API_LATENCY.  Each request is served by   *)
(* its own thread (werkzeug's development server, started by app.run), so  *)
(* the steps of different requests interleave.                             *)
(*                                                                         *)
(* Time is counted in units of 50 ms, so time.sleep(0.05) is SIM_DELAY = 1 *)
(* unit.  The clock has no origin: a timer is the time since it started.   *)
(***************************************************************************)
EXTENDS Integers, Sequences, FiniteSets, Bags, TLC

\* ------------------------------------------------------------------ bounds
\* the number of requests the server accepts in a run, one at a time
MaxRequests == 3
\* the number of requests the server accepts in a run in which they overlap
MaxBurst == 2
\* the number of requests that are handled at the same time
MaxInFlight == 2
\* a timer runs at least this far, and on for as long as its thread sleeps
MaxTime == 1

\* the slots of the requests in flight; a slot is taken again once its
\* request is answered
Req == 1..MaxInFlight

\* ------------------------------------------------------- program constants
SIM_DELAY == 1
APP_VERSION == "v1.0.0"

\* ---------------------------------------------------------------- JSON data
\* A JSON value is a record [t, s, n, items, fields]; t is the JSON type and
\* only the field that belongs to the type carries information.
JNull == [t |-> "null", s |-> "", n |-> 0, items |-> 0, fields |-> {}]
JBool(b) == [t |-> "bool", s |-> "", n |-> IF b THEN 1 ELSE 0, items |-> 0, fields |-> {}]
JNum(k) == [t |-> "num", s |-> "", n |-> k, items |-> 0, fields |-> {}]
JStr(x) == [t |-> "str", s |-> x, n |-> 0, items |-> 0, fields |-> {}]
\* an array is represented by its length, which is all the handler looks at
JArr(k) == [t |-> "arr", s |-> "", n |-> 0, items |-> k, fields |-> {}]
\* an object is a set of <<key, scalar value>> pairs with distinct keys
JObj(kv) == [t |-> "obj", s |-> "", n |-> 0, items |-> 0, fields |-> kv]

\* Python's None is what JSON null parses to
None == JNull

\* scalar form used inside objects: <<type, string, number>>
SNull == <<"null", "", 0>>
SStr(x) == <<"str", x, 0>>
SNum(k) == <<"num", "", k>>
SBool(b) == <<"bool", "", IF b THEN 1 ELSE 0>>

\* transactionId values that are empty in Python's sense, and those that are not
EmptyTx == {SStr(""), SNum(0)}
NonEmptyTx == {SStr("abc123"), SNum(7)}

\* request bodies as they arrive on the wire
NoBody == [enc |-> "none", val |-> JNull]
Malformed == [enc |-> "malformed", val |-> JNull]
Json(v) == [enc |-> "json", val |-> v]

ObjectBodies ==
    {Json(JObj({}))} \cup {Json(JObj({<<"other", SStr("x")>>}))}
    \cup {Json(JObj({<<"transactionId", v>>})) : v \in EmptyTx \cup NonEmptyTx}

NonObjectBodies ==
    {Json(JNull), Json(JArr(0)), Json(JBool(TRUE)), Json(JStr("abc")), Json(JArr(1))}

Bodies == {NoBody, Malformed} \cup ObjectBodies \cup NonObjectBodies

\* bodies for each of the three ways enrich can end, for the runs in which
\* requests overlap
OverlapBodies ==
    {NoBody, Malformed, Json(JObj({<<"transactionId", SStr("")>>})), Json(JArr(1)),
     Json(JObj({<<"transactionId", SStr("abc123")>>})),
     Json(JObj({<<"transactionId", SNum(7)>>}))}

Routes == {"/", "/healthz", "/enrich", "/metrics"}

\* ------------------------------------------------------ enrich: pure steps
\* Python truthiness of a parsed JSON value (None, False, 0, "", [] and {} are falsy)
Truthy(v) ==
    CASE v.t = "null" -> FALSE
      [] v.t = "bool" -> v.n = 1
      [] v.t = "num" -> v.n # 0
      [] v.t = "str" -> v.s # ""
      [] v.t = "arr" -> v.items # 0
      [] v.t = "obj" -> v.fields # {}

\* Python truthiness of a scalar held in an object
TruthyScalar(x) ==
    CASE x[1] = "null" -> FALSE
      [] x[1] = "bool" -> x[3] = 1
      [] x[1] = "num" -> x[3] # 0
      [] x[1] = "str" -> x[2] # ""

\* request.get_json(silent=True): None when there is no JSON body or when the
\* body does not parse, the parsed value otherwise
GetJsonSilent(b) == IF b.enc = "json" THEN b.val ELSE None

\* the same without the "or {}" default
ParseDataNoDefault(b) == GetJsonSilent(b)

\* data = request.get_json(silent=True) or {}
ParseData(b) == IF Truthy(GetJsonSilent(b)) THEN GetJsonSilent(b) ELSE JObj({})

\* only a dict has .get; on a list, a string, a number or True the call raises
\* AttributeError
HasGet(data) == data.t = "obj"

\* data.get("transactionId"): the value under the key, None when it is absent
DictGet(data, key) ==
    IF \E kv \in data.fields : kv[1] = key
    THEN (CHOOSE kv \in data.fields : kv[1] = key)[2]
    ELSE SNull

\* the path enrich takes through lines 60-70 for a body
EnrichBranch(b) ==
    IF ~HasGet(ParseData(b)) THEN "raise"
    ELSE IF ~TruthyScalar(DictGet(ParseData(b), "transactionId")) THEN "reject"
    ELSE "ok"

\* str() of a scalar, as the f-string formats it
PyStr(x) ==
    CASE x[1] = "null" -> "None"
      [] x[1] = "bool" -> (IF x[3] = 1 THEN "True" ELSE "False")
      [] x[1] = "num" -> ToString(x[3])
      [] x[1] = "str" -> x[2]

\* ---------------------------------------------------------------- responses
\* jsonify of a dict is modelled as the set of its <<key, value>> members
NoSamples == {}
JsonResponse(kv, code) ==
    [status |-> code, ctype |-> "application/json", json |-> kv, text |-> "",
     samples |-> NoSamples]
TextResponse(txt, code) ==
    [status |-> code, ctype |-> "text/html", json |-> {}, text |-> txt,
     samples |-> NoSamples]
NoResponse == [status |-> 0, ctype |-> "", json |-> {}, text |-> "", samples |-> NoSamples]

IndexResponse ==
    JsonResponse({<<"message", "Hello from the Enrichment API!">>,
                  <<"version", APP_VERSION>>}, 200)

\* a probe that reports the service as unavailable
HealthzUnavailable == TextResponse("unavailable", 503)

HealthzResponse == TextResponse("ok", 200)

MissingResponse == JsonResponse({<<"error", "Missing transactionId">>}, 400)

\* the same with the identifier left out of the text
EnrichedResponseNoId(tx) ==
    JsonResponse({<<"enriched_transaction", "Enriched transaction ">>}, 200)

EnrichedResponse(tx) ==
    JsonResponse({<<"enriched_transaction", "Enriched transaction " \o PyStr(tx)>>}, 200)

\* what Flask answers when the view function raises
InternalServerError == TextResponse("Internal Server Error", 500)

\* ------------------------------------------------------------------ metrics
\* labels() making a fresh child on every call, so that a sample never passes 1
CounterIncFresh(c, key) ==
    [k \in DOMAIN c \cup {key} |-> IF k = key THEN 1 ELSE c[k]]

\* an increment that counts a request twice
CounterIncTwice(c, key) ==
    [k \in DOMAIN c \cup {key} |->
        IF k = key THEN (IF key \in DOMAIN c THEN c[key] + 2 ELSE 2) ELSE c[k]]

\* a Counter with labels: a function from the label tuples created so far;
\* .labels(...) creates the child at 0 when it is new, .inc() adds 1 under the
\* child's lock
CounterInc(c, key) ==
    [k \in DOMAIN c \cup {key} |->
        IF k = key THEN (IF key \in DOMAIN c THEN c[key] + 1 ELSE 1) ELSE c[k]]

\* a timer that measures nothing
ElapsedNone(t) == 0

\* Timer.__exit__: duration = max(default_timer() - start, 0), where t is the
\* time that has passed since the timer read start
Elapsed(t) == IF t > 0 THEN t ELSE 0

\* an observation that replaces what the child held
ObserveReplace(h, e, d) == [h EXCEPT ![e] = SetToBag({d})]

\* a Histogram child is the bag of the durations observed on it
Observe(h, e, d) == [h EXCEPT ![e] = @ (+) SetToBag({d})]

RECURSIVE BagSum(_)
BagSum(b) ==
    IF BagToSet(b) = {} THEN 0
    ELSE LET d == CHOOSE x \in BagToSet(b) : TRUE
         IN d * b[d] + BagSum([x \in BagToSet(b) \ {d} |-> b[x]])

\* generate_latest(): one sample per label tuple of the counter, and the
\* _count and _sum samples of every histogram child
GenerateLatest(c, h) ==
    {<<"http_requests_total", k, c[k]>> : k \in DOMAIN c}
    \cup {<<"http_request_duration_seconds_count", <<e>>, BagCardinality(h[e])>> : e \in DOMAIN h}
    \cup {<<"http_request_duration_seconds_sum", <<e>>, BagSum(h[e])>> : e \in DOMAIN h}

MetricsResponse(c, h) ==
    [status |-> 200, ctype |-> "text/plain; version=0.0.4; charset=utf-8",
     json |-> {}, text |-> "", samples |-> GenerateLatest(c, h)]

\* -------------------------------------------------------------------- state
VARIABLES
    REQUEST_COUNT,  \* the labelled counter http_requests_total
    API_LATENCY,    \* the labelled histogram http_request_duration_seconds
    pc,             \* where each request's thread is
    route,          \* the path each request was sent to
    body,           \* the body each request carries
    timer,          \* the time since the timer of each timed request started
    left,           \* the time a sleeping request has left to sleep
    ret,            \* what the view function returned, before the timer exits
    resp,           \* the response each request got
    dur,            \* the duration each request's timer observed
    trace,          \* what each request's thread has done so far, in order
    arrived,        \* the number of requests accepted so far
    served          \* the bag of <<path, status>> of the requests answered so far

vars == <<REQUEST_COUNT, API_LATENCY, pc, route, body, timer, left, ret, resp, dur,
          trace, arrived, served>>

Timed == {"/", "/enrich"}

\* REQUEST_COUNT has no children until .labels() is first called in a handler;
\* the decorators at lines 47 and 58 create both children of API_LATENCY
Init ==
    /\ REQUEST_COUNT = <<>>
    /\ API_LATENCY = [e \in Timed |-> EmptyBag]
    /\ pc = [r \in Req |-> "idle"]
    /\ route = [r \in Req |-> "/"]
    /\ body = [r \in Req |-> NoBody]
    /\ timer = [r \in Req |-> 0]
    /\ left = [r \in Req |-> 0]
    /\ ret = [r \in Req |-> NoResponse]
    /\ resp = [r \in Req |-> NoResponse]
    /\ dur = [r \in Req |-> 0]
    /\ trace = [r \in Req |-> <<>>]
    /\ arrived = 0
    /\ served = EmptyBag

\* a sleep that has never any time left
SleepLeftNone(d, t) == 0

\* time.sleep(d) returns no earlier than d after it was called: what is left
\* of it when t has passed
SleepLeft(d, t) == IF d > t THEN d - t ELSE 0

Free(r) == pc[r] \in {"idle", "done"}

\* the path is dispatched to its view function; the views of / and /enrich are
\* wrapped by API_LATENCY.labels(endpoint=...).time(), whose timer reads the
\* clock before the view's body runs
Dispatch(rt) == IF rt \in Timed THEN "body" ELSE "recv"

\* a request reaches the server and takes the first free slot; only
\* POST /enrich carries a body
Arrive(r, rt, b) ==
    /\ Free(r)
    /\ \A q \in Req : q < r => ~Free(q)
    /\ rt # "/enrich" => b = NoBody
    /\ arrived' = arrived + 1
    /\ pc' = [pc EXCEPT ![r] = Dispatch(rt)]
    /\ route' = [route EXCEPT ![r] = rt]
    /\ body' = [body EXCEPT ![r] = b]
    /\ timer' = [timer EXCEPT ![r] = 0]
    /\ trace' = [trace EXCEPT ![r] = IF rt \in Timed THEN <<"timer_start">> ELSE <<>>]
    /\ left' = [left EXCEPT ![r] = 0]
    /\ ret' = [ret EXCEPT ![r] = NoResponse]
    /\ resp' = [resp EXCEPT ![r] = NoResponse]
    /\ dur' = [dur EXCEPT ![r] = 0]
    /\ UNCHANGED <<REQUEST_COUNT, API_LATENCY, served>>

\* index
IndexBody(r) ==
    /\ pc[r] = "body"
    /\ route[r] = "/"
    /\ REQUEST_COUNT' = CounterInc(REQUEST_COUNT, <<"GET", "/", "200">>)
    /\ ret' = [ret EXCEPT ![r] = IndexResponse]
    /\ pc' = [pc EXCEPT ![r] = "exit"]
    /\ trace' = [trace EXCEPT ![r] = Append(@, "inc_200")]
    /\ UNCHANGED <<API_LATENCY, route, body, timer, left, resp, dur, arrived, served>>

\* healthz
Healthz(r) ==
    /\ pc[r] = "recv"
    /\ route[r] = "/healthz"
    /\ resp' = [resp EXCEPT ![r] = HealthzResponse]
    /\ served' = served (+) SetToBag({<<"/healthz", HealthzResponse.status>>})
    /\ pc' = [pc EXCEPT ![r] = "done"]
    /\ UNCHANGED <<REQUEST_COUNT, API_LATENCY, route, body, timer, left, ret, dur,
                   trace, arrived>>

\* enrich, lines 60-64: no transactionId
EnrichReject(r) ==
    /\ pc[r] = "body"
    /\ route[r] = "/enrich"
    /\ EnrichBranch(body[r]) = "reject"
    /\ REQUEST_COUNT' = CounterInc(REQUEST_COUNT, <<"POST", "/enrich", "400">>)
    /\ ret' = [ret EXCEPT ![r] = MissingResponse]
    /\ pc' = [pc EXCEPT ![r] = "exit"]
    /\ trace' = [trace EXCEPT ![r] = Append(@, "inc_400")]
    /\ UNCHANGED <<API_LATENCY, route, body, timer, left, resp, dur, arrived, served>>

\* enrich, line 61: data is not a dict, data.get raises AttributeError
EnrichRaise(r) ==
    /\ pc[r] = "body"
    /\ route[r] = "/enrich"
    /\ EnrichBranch(body[r]) = "raise"
    /\ ret' = [ret EXCEPT ![r] = InternalServerError]
    /\ pc' = [pc EXCEPT ![r] = "exit"]
    /\ trace' = [trace EXCEPT ![r] = Append(@, "raise")]
    /\ UNCHANGED <<REQUEST_COUNT, API_LATENCY, route, body, timer, left, resp, dur,
                   arrived, served>>

\* enrich, line 67: time.sleep(0.05) is entered
EnrichSleepBegin(r) ==
    /\ pc[r] = "body"
    /\ route[r] = "/enrich"
    /\ EnrichBranch(body[r]) = "ok"
    /\ left' = [left EXCEPT ![r] = SleepLeft(SIM_DELAY, 0)]
    /\ pc' = [pc EXCEPT ![r] = "sleeping"]
    /\ trace' = [trace EXCEPT ![r] = Append(@, "sleep_begin")]
    /\ UNCHANGED <<REQUEST_COUNT, API_LATENCY, route, body, timer, ret, resp, dur,
                   arrived, served>>

\* enrich, lines 67-70: time.sleep(0.05) returns, the request is counted and
\* the view returns
EnrichCount(r) ==
    /\ route[r] = "/enrich"
    /\ pc[r] = "sleeping"
    /\ left[r] = 0
    /\ REQUEST_COUNT' = CounterInc(REQUEST_COUNT, <<"POST", "/enrich", "200">>)
    /\ ret' = [ret EXCEPT ![r] =
                  EnrichedResponse(DictGet(ParseData(body[r]), "transactionId"))]
    /\ pc' = [pc EXCEPT ![r] = "exit"]
    /\ trace' = [trace EXCEPT ![r] = @ \o <<"sleep_end", "inc_200">>]
    /\ UNCHANGED <<API_LATENCY, route, body, timer, left, resp, dur, arrived, served>>

\* the timer's __exit__, on return and on exception alike: the duration is
\* observed on the endpoint's child, and the wrapped view hands its result
\* (or its exception) to Flask, which answers
TimerExit(r) ==
    /\ pc[r] = "exit"
    /\ dur' = [dur EXCEPT ![r] = Elapsed(timer[r])]
    /\ API_LATENCY' = Observe(API_LATENCY, route[r], Elapsed(timer[r]))
    /\ resp' = [resp EXCEPT ![r] = ret[r]]
    /\ served' = served (+) SetToBag({<<route[r], ret[r].status>>})
    /\ pc' = [pc EXCEPT ![r] = "done"]
    /\ trace' = [trace EXCEPT ![r] = Append(@, "observe")]
    /\ timer' = [timer EXCEPT ![r] = 0]
    /\ UNCHANGED <<REQUEST_COUNT, route, body, left, ret, arrived>>

\* metrics
Metrics(r) ==
    /\ pc[r] = "recv"
    /\ route[r] = "/metrics"
    /\ resp' = [resp EXCEPT ![r] = MetricsResponse(REQUEST_COUNT, API_LATENCY)]
    /\ served' = served (+) SetToBag({<<"/metrics", 200>>})
    /\ pc' = [pc EXCEPT ![r] = "done"]
    /\ UNCHANGED <<REQUEST_COUNT, API_LATENCY, route, body, timer, left, ret, dur,
                   trace, arrived>>

Running(r) == pc[r] \in {"body", "sleeping", "exit"}

\* time passes for every running timer and every sleeper; it does not stop
\* while a thread has to sleep
Tick ==
    /\ \E r \in Req : Running(r)
    /\ \A r \in Req : Running(r) => (timer[r] < MaxTime \/ left[r] > 0)
    /\ timer' = [r \in Req |-> IF Running(r) THEN timer[r] + 1 ELSE timer[r]]
    /\ left' = [r \in Req |-> SleepLeft(left[r], 1)]
    /\ UNCHANGED <<REQUEST_COUNT, API_LATENCY, pc, route, body, ret, resp, dur,
                   trace, arrived, served>>

Next ==
    \/ \E r \in Req, rt \in Routes, b \in OverlapBodies :
          arrived < MaxBurst /\ Arrive(r, rt, b)
    \/ \E r \in Req : IndexBody(r)
    \/ \E r \in Req : Healthz(r)
    \/ \E r \in Req : EnrichReject(r)
    \/ \E r \in Req : EnrichRaise(r)
    \/ \E r \in Req : EnrichSleepBegin(r)
    \/ \E r \in Req : EnrichCount(r)
    \/ \E r \in Req : TimerExit(r)
    \/ \E r \in Req : Metrics(r)
    \/ Tick

Spec == Init /\ [][Next]_vars

\* the server handling one request at a time, with every body
OneByOne ==
    \/ \E rt \in Routes, b \in Bodies : arrived < MaxRequests /\ Arrive(1, rt, b)
    \/ IndexBody(1)
    \/ Healthz(1)
    \/ EnrichReject(1)
    \/ EnrichRaise(1)
    \/ EnrichSleepBegin(1)
    \/ EnrichCount(1)
    \/ TimerExit(1)
    \/ Metrics(1)
    \/ Tick

SeqSpec == Init /\ [][OneByOne]_vars

\* every request has a thread of its own and the threads are scheduled fairly:
\* a thread that only has to return "ok" gets to do so
FairSpec == Spec /\ \A r \in Req : WF_vars(Healthz(r))

\* ------------------------------------------------------------ what is claimed
Done(r) == pc[r] = "done"

Quiescent == \A r \in Req : Free(r)

\* the number of requests answered so far on a path with a status
ServedWith(rt, st) == CopiesIn(<<rt, st>>, served)

\* the number of requests answered so far on a path
ServedOn(rt) == ServedWith(rt, 200) + ServedWith(rt, 400) + ServedWith(rt, 500)

\* the number of requests answered so far
ServedTotal == BagCardinality(served)

\* the value of a counter sample, 0 when the sample does not exist
CounterValue(key) == IF key \in DOMAIN REQUEST_COUNT THEN REQUEST_COUNT[key] ELSE 0

RECURSIVE SumOver(_, _)
SumOver(c, keys) ==
    IF keys = {} THEN 0
    ELSE LET k == CHOOSE x \in keys : TRUE IN c[k] + SumOver(c, keys \ {k})

\* the sum of REQUEST_COUNT over all its label tuples
CounterTotal == SumOver(REQUEST_COUNT, DOMAIN REQUEST_COUNT)

\* the body is a JSON object that carries the non-empty transactionId v
CarriesTx(b, v) == b.enc = "json" /\ b.val.t = "obj" /\ <<"transactionId", v>> \in b.val.fields

\* the identifier as it is expected in the answer
TxText(v) == IF v = SStr("abc123") THEN "abc123" ELSE "7"

MissingTx(b) == \A v \in NonEmptyTx : ~CarriesTx(b, v)

IsMissingAnswer(x) ==
    x.status = 400 /\ x.json = {<<"error", "Missing transactionId">>}

\* C1: a POST /enrich whose JSON body carries a non-empty transactionId T is
\* answered 200 with {"enriched_transaction": "Enriched transaction T"},
\* whatever was handled before
C1_EnrichEchoes ==
    \A r \in Req : \A v \in NonEmptyTx :
        (Done(r) /\ route[r] = "/enrich" /\ CarriesTx(body[r], v)) =>
            /\ resp[r].status = 200
            /\ resp[r].json = {<<"enriched_transaction", "Enriched transaction " \o TxText(v)>>}

\* an /enrich with an identifier is answered 200 after two other requests
C1_Witness ==
    \E r \in Req :
        /\ Done(r) /\ route[r] = "/enrich" /\ CarriesTx(body[r], SStr("abc123"))
        /\ resp[r].status = 200
        /\ ServedTotal = 3

\* C2: a POST /enrich whose body has no transactionId or an empty one (no
\* body, a body that is not JSON, JSON that is not an object with the field)
\* is answered 400 with {"error": "Missing transactionId"}
C2_MissingIs400 ==
    \A r \in Req :
        (Done(r) /\ route[r] = "/enrich" /\ MissingTx(body[r])) => IsMissingAnswer(resp[r])

\* C3: after N handled requests over the four routes the sum of REQUEST_COUNT
\* over all label tuples is N
C3_TotalIsHandled == Quiescent => CounterTotal = ServedTotal

\* C3 as amended: the sum of REQUEST_COUNT is the number of requests to / and
\* /enrich that were answered 200 or 400
C3_TotalIsCounted ==
    Quiescent =>
        CounterTotal = ServedWith("/", 200) + ServedWith("/enrich", 200)
                       + ServedWith("/enrich", 400)

\* all requests are answered, some were counted and some were not
C3_Witness ==
    /\ Quiescent
    /\ ServedTotal = 3
    /\ CounterTotal = 2
    /\ ServedWith("/healthz", 200) + ServedWith("/metrics", 200) = 1

\* C4: whenever /metrics is served, the count of the API_LATENCY sample of
\* "/enrich" is the number of /enrich calls completed so far, the 200 and the
\* 400 outcomes alike
C4_ScrapedCount ==
    [][\A r \in Req :
          (pc[r] = "recv" /\ route[r] = "/metrics" /\ pc'[r] = "done") =>
              <<"http_request_duration_seconds_count", <<"/enrich">>, ServedOn("/enrich")>>
                  \in resp'[r].samples]_vars

\* /metrics was served after an /enrich answered 200 and one answered 400
C4_Witness ==
    \E r \in Req :
        /\ Done(r) /\ route[r] = "/metrics"
        /\ <<"http_request_duration_seconds_count", <<"/enrich">>, 2>> \in resp[r].samples
        /\ ServedWith("/enrich", 200) = 1
        /\ ServedWith("/enrich", 400) = 1

\* C5: every duration observed for "/enrich" is at least the simulated delay,
\* whatever the outcome of the call
C5_AllAtLeastDelay == \A d \in BagToSet(API_LATENCY["/enrich"]) : d >= SIM_DELAY

\* C5 as amended: the duration observed for an /enrich call that is answered
\* 200 is at least the simulated delay
C5_OkAtLeastDelay ==
    \A r \in Req :
        (Done(r) /\ route[r] = "/enrich" /\ resp[r].status = 200) =>
            /\ dur[r] >= SIM_DELAY
            /\ dur[r] \in BagToSet(API_LATENCY["/enrich"])

\* an /enrich is answered 200 and a shorter duration was observed as well
C5_Witness ==
    /\ \E r \in Req : Done(r) /\ route[r] = "/enrich" /\ resp[r].status = 200
    /\ 0 \in BagToSet(API_LATENCY["/enrich"])

IsOk(x) == x.status = 200 /\ x.text = "ok"

\* C6: a /healthz request is eventually answered, and its answer is 200 "ok",
\* however many /enrich requests are in flight or asleep
C6_HealthzAnswers ==
    /\ [](\A r \in Req : (Done(r) /\ route[r] = "/healthz") => IsOk(resp[r]))
    /\ \A r \in Req :
          (pc[r] = "recv" /\ route[r] = "/healthz")
              ~> (Done(r) /\ route[r] = "/healthz" /\ IsOk(resp[r]))

\* /healthz is answered while an /enrich sleeps
C6_Witness ==
    /\ \E r \in Req : Done(r) /\ route[r] = "/healthz" /\ IsOk(resp[r])
    /\ \E q \in Req : pc[q] = "sleeping" /\ left[q] > 0

Method(rt) == IF rt = "/enrich" THEN "POST" ELSE "GET"

Incs(tr) == Cardinality({i \in DOMAIN tr : tr[i] \in {"inc_200", "inc_400"}})

\* C7: a request handled by index or enrich increments REQUEST_COUNT exactly
\* once before it completes, on the labels of its method, its path and the
\* status of the response returned
C7_CountedOnce ==
    \A r \in Req :
        (Done(r) /\ route[r] \in Timed) =>
            /\ Incs(trace[r]) = 1
            /\ CounterValue(<<Method(route[r]), route[r], ToString(resp[r].status)>>) >= 1

Before(tr, a, b) ==
    \E i, j \in DOMAIN tr : i < j /\ tr[i] = a /\ tr[j] = b

Times(tr, a) == Cardinality({i \in DOMAIN tr : tr[i] = a})

\* C8: an /enrich that is answered 200 has slept exactly once, inside the
\* timed scope: the timer started before the sleep, and the observation came
\* after the sleep and the increment, so that it includes the delay
C8_DelayIsTimed ==
    \A r \in Req :
        (Done(r) /\ route[r] = "/enrich" /\ resp[r].status = 200) =>
            /\ Times(trace[r], "sleep_begin") = 1
            /\ Times(trace[r], "sleep_end") = 1
            /\ Times(trace[r], "observe") = 1
            /\ Before(trace[r], "timer_start", "sleep_begin")
            /\ Before(trace[r], "sleep_begin", "sleep_end")
            /\ Before(trace[r], "sleep_end", "observe")
            /\ Before(trace[r], "inc_200", "observe")
            /\ dur[r] >= SIM_DELAY

\* an /enrich is answered 200 after a sleep that overlapped another request
C8_Witness ==
    /\ Done(2) /\ route[2] = "/enrich" /\ resp[2].status = 200
    /\ Times(trace[2], "sleep_begin") = 1

\* C9: when requests to / and /enrich are handled concurrently, no increment
\* and no observation is lost: once all have completed every REQUEST_COUNT
\* sample is the number of completed requests with its labels and every
\* API_LATENCY count is the number of completed requests to its endpoint
C9_NothingLost ==
    Quiescent =>
        /\ \A k \in DOMAIN REQUEST_COUNT :
              \E st \in {200, 400} :
                  /\ k = <<Method(k[2]), k[2], ToString(st)>>
                  /\ k[2] \in Timed
                  /\ REQUEST_COUNT[k] = ServedWith(k[2], st)
        /\ CounterValue(<<"GET", "/", "200">>) = ServedWith("/", 200)
        /\ CounterValue(<<"POST", "/enrich", "200">>) = ServedWith("/enrich", 200)
        /\ CounterValue(<<"POST", "/enrich", "400">>) = ServedWith("/enrich", 400)
        /\ \A e \in Timed : BagCardinality(API_LATENCY[e]) = ServedOn(e)

\* two overlapping requests with the same labels have completed
C9_Witness ==
    /\ Quiescent
    /\ Done(1) /\ Done(2)
    /\ route[1] = route[2] /\ route[1] \in Timed
    /\ resp[1].status = resp[2].status
    /\ CounterValue(<<Method(route[1]), route[1], ToString(resp[1].status)>>) = 2

\* C10: a POST /enrich whose body does not parse as JSON is not handled by
\* enrich and is answered with the framework's 500, not with the 400
\* "Missing transactionId"
C10_MalformedIs500 ==
    \A r \in Req :
        (Done(r) /\ route[r] = "/enrich" /\ body[r] = Malformed) =>
            resp[r].status = 500 /\ ~IsMissingAnswer(resp[r])

\* C10 as amended: a POST /enrich whose body does not parse as JSON is
\* answered with the 400 "Missing transactionId", not with a 500
C10_MalformedIs400 ==
    \A r \in Req :
        (Done(r) /\ route[r] = "/enrich" /\ body[r] = Malformed) =>
            IsMissingAnswer(resp[r]) /\ resp[r].status # 500

\* an /enrich with a malformed body is answered
C10_Witness ==
    \E r \in Req : Done(r) /\ route[r] = "/enrich" /\ body[r] = Malformed /\ resp[r].status = 400

====
